---- MODULE Spec2Model ----
(***************************************************************************)
(* Model of supercell.api.cache (the Cache-Control header builder and the  *)
(* cache(...) decorator) and of the content-type provider registry that    *)
(* test/test_provider.py exercises.                                        *)
(***************************************************************************)
EXTENDS Integers, Sequences, FiniteSets, TLC

VARIABLES
    stage,            \* "start" | "configured" | "installed" | "direct" | "type_error"
    closure,          \* parameters captured by cache(...), see cache.py:43-44
    given,            \* names of the arguments the caller passed
    pc,               \* position inside _func: idle/called/header_set/in_body/returned/raised
    ncalls,           \* number of invocations of the decorated method so far
    call,             \* what the caller passed: [self, args, kwargs]
    cache_config,     \* the CacheConfigT built last (cache.py:94 or a direct CacheConfig call)
    header,           \* outcome of the last compute_cache_header call
    set_header_calls, \* set_header calls seen by the handler during this invocation
    fn_calls,         \* calls of the wrapped fn during this invocation
    fn_result,        \* what the wrapped fn returned during this invocation
    outcome,          \* what the decorated method gave back to its caller
    registry,         \* registered providers, in registration order
    lookup            \* outcome of the last map_provider call

vars == <<stage, closure, given, pc, ncalls, call, cache_config, header,
          set_header_calls, fn_calls, fn_result, outcome, registry, lookup>>

cacheVars == <<stage, closure, given, pc, ncalls, call, cache_config, header,
               set_header_calls, fn_calls, fn_result, outcome>>

registryVars == <<registry, lookup>>

-----------------------------------------------------------------------------
(* Bounds of the model *)

MaxDays == 1
MaxCalls == 2

-----------------------------------------------------------------------------
(* datetime.timedelta values, normalised as Python keeps them *)

SecondsValues == {0, 600}

\* Python's None where a timedelta is expected; it has no .seconds attribute.
None == [days |-> -1, seconds |-> -1, microseconds |-> -1]

Durations ==
    {[days |-> d, seconds |-> s, microseconds |-> 0] :
        d \in 0..MaxDays, s \in SecondsValues}
    \cup {[days |-> 0, seconds |-> 0, microseconds |-> 1]}

\* bool(x) as `if cache_config.s_max_age:` evaluates it: None is falsy, a
\* timedelta is falsy exactly when it is the zero duration.
Truthy(td) ==
    /\ td # None
    /\ (td.days # 0 \/ td.seconds # 0 \/ td.microseconds # 0)

-----------------------------------------------------------------------------
(* '%s' % n for an integer n *)

Digit(d) ==
    CASE d = 0 -> "0" [] d = 1 -> "1" [] d = 2 -> "2" [] d = 3 -> "3"
      [] d = 4 -> "4" [] d = 5 -> "5" [] d = 6 -> "6" [] d = 7 -> "7"
      [] d = 8 -> "8" [] d = 9 -> "9"

RECURSIVE NatToStr(_)
NatToStr(n) == IF n < 10 THEN Digit(n) ELSE NatToStr(n \div 10) \o Digit(n % 10)

IntToStr(n) == IF n < 0 THEN "-" \o NatToStr(-n) ELSE NatToStr(n)

\* ', '.join(params)
RECURSIVE Join(_, _)
Join(seq, sep) ==
    IF seq = <<>> THEN ""
    ELSE IF Len(seq) = 1 THEN seq[1]
    ELSE seq[1] \o sep \o Join(Tail(seq), sep)

-----------------------------------------------------------------------------
(* CacheConfigT, CacheConfig and compute_cache_header *)

OptionalNames == {"s_max_age", "public", "private", "no_cache", "no_store",
                  "must_revalidate", "proxy_revalidate"}

\* CacheConfig with must_revalidate defaulting to False.
CacheConfigDefaults_no_revalidate ==
    [s_max_age |-> None, public |-> FALSE, private |-> FALSE,
     no_cache |-> FALSE, no_store |-> FALSE, must_revalidate |-> FALSE,
     proxy_revalidate |-> FALSE]

\* Default values of the keyword parameters of CacheConfig.
CacheConfigDefaults ==
    [s_max_age |-> None, public |-> FALSE, private |-> FALSE,
     no_cache |-> FALSE, no_store |-> FALSE, must_revalidate |-> TRUE,
     proxy_revalidate |-> FALSE]

\* Default values of the keyword parameters of cache.
cacheDefaults ==
    [s_max_age |-> None, public |-> FALSE, private |-> FALSE,
     no_cache |-> FALSE, no_store |-> FALSE, must_revalidate |-> TRUE,
     proxy_revalidate |-> FALSE]

\* Binding of keyword arguments kw against the defaults of a signature.
Bind(max_age, kw, defaults) ==
    [name \in OptionalNames \cup {"max_age"} |->
        IF name = "max_age" THEN max_age
        ELSE IF name \in DOMAIN kw THEN kw[name]
        ELSE defaults[name]]

CacheConfig(max_age, kw) == Bind(max_age, kw, CacheConfigDefaults)

\* compute_cache_header appending 'private' before 'public'.
Params_private_first(cfg) ==
    <<"max-age=" \o IntToStr(cfg.max_age.seconds)>>
    \o (IF Truthy(cfg.s_max_age)
        THEN <<"s-max-age=" \o IntToStr(cfg.s_max_age.seconds)>> ELSE <<>>)
    \o (IF cfg.private THEN <<"private">> ELSE <<>>)
    \o (IF cfg.public THEN <<"public">> ELSE <<>>)
    \o (IF cfg.no_cache THEN <<"no-cache">> ELSE <<>>)
    \o (IF cfg.no_store THEN <<"no-store">> ELSE <<>>)
    \o (IF cfg.must_revalidate THEN <<"must-revalidate">> ELSE <<>>)
    \o (IF cfg.proxy_revalidate THEN <<"proxy-revalidate">> ELSE <<>>)

\* The params list compute_cache_header builds before joining it.
Params(cfg) ==
    <<"max-age=" \o IntToStr(cfg.max_age.seconds)>>
    \o (IF Truthy(cfg.s_max_age)
        THEN <<"s-max-age=" \o IntToStr(cfg.s_max_age.seconds)>> ELSE <<>>)
    \o (IF cfg.public THEN <<"public">> ELSE <<>>)
    \o (IF cfg.private THEN <<"private">> ELSE <<>>)
    \o (IF cfg.no_cache THEN <<"no-cache">> ELSE <<>>)
    \o (IF cfg.no_store THEN <<"no-store">> ELSE <<>>)
    \o (IF cfg.must_revalidate THEN <<"must-revalidate">> ELSE <<>>)
    \o (IF cfg.proxy_revalidate THEN <<"proxy-revalidate">> ELSE <<>>)

NoHeader == [kind |-> "none", value |-> "", exc |-> ""]

\* compute_cache_header formatting max_age itself when it is None
\* ('max-age=%s' % cache_config.max_age) instead of raising.
compute_cache_header_formats_none(cfg) ==
    IF cfg.max_age = None
    THEN [kind |-> "value", value |-> "max-age=None", exc |-> ""]
    ELSE [kind |-> "value", value |-> Join(Params(cfg), ", "), exc |-> ""]

\* compute_cache_header: the joined header, or the AttributeError that
\* `cache_config.max_age.seconds` raises when max_age is None.
compute_cache_header(cfg) ==
    IF cfg.max_age = None
    THEN [kind |-> "raise", value |-> "", exc |-> "AttributeError"]
    ELSE [kind |-> "value", value |-> Join(Params(cfg), ", "), exc |-> ""]

-----------------------------------------------------------------------------
(* Inputs *)

MaxAgeValues == Durations \cup {None}

\* The required positional argument max_age left out of the call.
Missing == [days |-> -2, seconds |-> -2, microseconds |-> -2]

MaxAgeArgs == MaxAgeValues \cup {Missing}

NoKeywords == [n \in {} |-> FALSE]

\* Every keyword given explicitly.
AllKeywords ==
    [s_max_age : Durations \cup {None}, public : BOOLEAN, private : BOOLEAN,
     no_cache : BOOLEAN, no_store : BOOLEAN, must_revalidate : BOOLEAN,
     proxy_revalidate : BOOLEAN]

\* A single keyword given, the rest left to the defaults.
OneKeyword ==
    {[n \in {k} |-> b] : k \in OptionalNames \ {"s_max_age"}, b \in BOOLEAN}
    \cup {[n \in {"s_max_age"} |-> d] : d \in Durations \cup {None}}

KeywordArgs == {NoKeywords} \cup OneKeyword \cup AllKeywords

Handlers == {"h1", "h2"}
\* (*args, **kwargs) of a call: none at all, or two positional arguments and
\* one keyword argument.
CallArgs == {[args |-> <<>>, kwargs |-> <<>>],
             [args |-> <<"a", "b">>, kwargs |-> << <<"k", "v">> >>]}
CallInputs ==
    {[self |-> h, args |-> a.args, kwargs |-> a.kwargs] :
        h \in Handlers, a \in CallArgs}
ReturnValues == {"None", "body"}

NoResult == "<no result>"
NoCall == [self |-> "", args |-> <<>>, kwargs |-> <<>>]
NoOutcome == [kind |-> "none", value |-> "", exc |-> ""]
NoConfig == Bind(None, NoKeywords, cacheDefaults)
NoLookup == [request |-> "", kind |-> "none", provider |-> ""]

-----------------------------------------------------------------------------
(* The decorator cache(...) and the direct use of CacheConfig *)

Init ==
    /\ stage = "start"
    /\ closure = NoConfig
    /\ given = {}
    /\ pc = "idle"
    /\ ncalls = 0
    /\ call = NoCall
    /\ cache_config = NoConfig
    /\ header = NoHeader
    /\ set_header_calls = <<>>
    /\ fn_calls = <<>>
    /\ fn_result = NoResult
    /\ outcome = NoOutcome
    /\ registry = <<>>
    /\ lookup = NoLookup

\* cache(max_age, **kw): binds the parameters and returns wrapper; a call
\* without the required max_age is a TypeError.
cache(max_age, kw) ==
    /\ stage = "start"
    /\ IF max_age = Missing
       THEN /\ stage' = "type_error"
            /\ given' = DOMAIN kw
            /\ UNCHANGED closure
       ELSE /\ closure' = Bind(max_age, kw, cacheDefaults)
            /\ given' = DOMAIN kw \cup {"max_age"}
            /\ stage' = "configured"
    /\ UNCHANGED <<pc, ncalls, call, cache_config, header, set_header_calls,
                   fn_calls, fn_result, outcome, registry, lookup>>

\* wrapper(fn): returns _func, which replaces the handler method.
wrapper ==
    /\ stage = "configured"
    /\ stage' = "installed"
    /\ UNCHANGED <<closure, given, pc, ncalls, call, cache_config, header,
                   set_header_calls, fn_calls, fn_result, outcome, registry, lookup>>

\* A caller invokes the decorated method: _func(self, *args, **kwargs).
func_call(c) ==
    /\ stage = "installed"
    /\ pc \in {"idle", "returned", "raised"}
    /\ ncalls < MaxCalls
    /\ pc' = "called"
    /\ ncalls' = ncalls + 1
    /\ call' = c
    /\ header' = NoHeader
    /\ set_header_calls' = <<>>
    /\ fn_calls' = <<>>
    /\ fn_result' = NoResult
    /\ outcome' = NoOutcome
    /\ UNCHANGED <<stage, closure, given, cache_config, registry, lookup>>

\* The keyword arguments _func passes to CacheConfig: all seven, from the closure.
ClosureKeywords == [n \in OptionalNames |-> closure[n]]

\* _func setting the header on the first invocation only.
func_set_header_first_only ==
    /\ pc = "called"
    /\ LET cfg == CacheConfig(closure.max_age, ClosureKeywords)
           h == compute_cache_header(cfg)
       IN /\ cache_config' = cfg
          /\ header' = h
          /\ IF h.kind = "raise"
             THEN /\ pc' = "raised"
                  /\ outcome' = [kind |-> "raise", value |-> "", exc |-> h.exc]
                  /\ UNCHANGED set_header_calls
             ELSE /\ pc' = "header_set"
                  /\ set_header_calls' =
                        IF ncalls = 1
                        THEN Append(set_header_calls,
                                    [self |-> call.self, name |-> "Cache-Control",
                                     value |-> h.value])
                        ELSE set_header_calls
                  /\ UNCHANGED outcome
    /\ UNCHANGED <<stage, closure, given, ncalls, call, fn_calls, fn_result,
                   registry, lookup>>

\* _func swallowing the exception of compute_cache_header and going on to fn.
func_set_header_swallows ==
    /\ pc = "called"
    /\ LET cfg == CacheConfig(closure.max_age, ClosureKeywords)
           h == compute_cache_header(cfg)
       IN /\ cache_config' = cfg
          /\ header' = h
          /\ pc' = "header_set"
          /\ set_header_calls' =
                IF h.kind = "raise" THEN set_header_calls
                ELSE Append(set_header_calls,
                            [self |-> call.self, name |-> "Cache-Control",
                             value |-> h.value])
          /\ UNCHANGED outcome
    /\ UNCHANGED <<stage, closure, given, ncalls, call, fn_calls, fn_result,
                   registry, lookup>>

\* _func builds the CacheConfigT, computes the header and calls
\* self.set_header; an exception of compute_cache_header leaves _func.
func_set_header ==
    /\ pc = "called"
    /\ LET cfg == CacheConfig(closure.max_age, ClosureKeywords)
           h == compute_cache_header(cfg)
       IN /\ cache_config' = cfg
          /\ header' = h
          /\ IF h.kind = "raise"
             THEN /\ pc' = "raised"
                  /\ outcome' = [kind |-> "raise", value |-> "", exc |-> h.exc]
                  /\ UNCHANGED set_header_calls
             ELSE /\ pc' = "header_set"
                  /\ set_header_calls' =
                        Append(set_header_calls,
                               [self |-> call.self, name |-> "Cache-Control",
                                value |-> h.value])
                  /\ UNCHANGED outcome
    /\ UNCHANGED <<stage, closure, given, ncalls, call, fn_calls, fn_result,
                   registry, lookup>>

\* return fn(self, *args): the keyword arguments are dropped.
func_invoke_fn_drops_kwargs ==
    /\ pc = "header_set"
    /\ fn_calls' = Append(fn_calls,
                          [self |-> call.self, args |-> call.args,
                           kwargs |-> <<>>])
    /\ pc' = "in_body"
    /\ UNCHANGED <<stage, closure, given, ncalls, call, cache_config, header,
                   set_header_calls, fn_result, outcome, registry, lookup>>

\* return fn(self, *args, **kwargs): the wrapped handler starts.
func_invoke_fn ==
    /\ pc = "header_set"
    /\ fn_calls' = Append(fn_calls,
                          [self |-> call.self, args |-> call.args,
                           kwargs |-> call.kwargs])
    /\ pc' = "in_body"
    /\ UNCHANGED <<stage, closure, given, ncalls, call, cache_config, header,
                   set_header_calls, fn_result, outcome, registry, lookup>>

\* fn returns r and _func returns what fn returned.
fn_return(r) ==
    /\ pc = "in_body"
    /\ fn_result' = r
    /\ outcome' = [kind |-> "return", value |-> r, exc |-> ""]
    /\ pc' = "returned"
    /\ UNCHANGED <<stage, closure, given, ncalls, call, cache_config, header,
                   set_header_calls, fn_calls, registry, lookup>>

\* fn raises and the exception leaves _func.
fn_raise ==
    /\ pc = "in_body"
    /\ outcome' = [kind |-> "raise", value |-> "", exc |-> "HandlerError"]
    /\ pc' = "raised"
    /\ UNCHANGED <<stage, closure, given, ncalls, call, cache_config, header,
                   set_header_calls, fn_calls, fn_result, registry, lookup>>

\* compute_cache_header(CacheConfig(max_age, **kw)) called directly; a
\* CacheConfig call without the required max_age is a TypeError.
direct_build(max_age, kw) ==
    /\ stage = "start"
    /\ IF max_age = Missing
       THEN /\ stage' = "type_error"
            /\ given' = DOMAIN kw
            /\ UNCHANGED <<cache_config, header>>
       ELSE /\ stage' = "direct"
            /\ given' = DOMAIN kw \cup {"max_age"}
            /\ cache_config' = CacheConfig(max_age, kw)
            /\ header' = compute_cache_header(CacheConfig(max_age, kw))
    /\ UNCHANGED <<closure, pc, ncalls, call, set_header_calls, fn_calls,
                   fn_result, outcome, registry, lookup>>

Next ==
    \/ stage = "start" /\ \E m \in MaxAgeArgs, kw \in KeywordArgs : cache(m, kw)
    \/ wrapper
    \/ \E c \in CallInputs : func_call(c)
    \/ func_set_header
    \/ func_invoke_fn
    \/ \E r \in ReturnValues : fn_return(r)
    \/ fn_raise
    \/ stage = "start" /\ \E m \in MaxAgeArgs, kw \in KeywordArgs : direct_build(m, kw)

Spec == Init /\ [][Next]_vars

-----------------------------------------------------------------------------
(* Content types and the provider registry *)

\* Absent vendor or version of a ContentType.
Absent == ""

ContentType(mime_type, vendor, version) ==
    [mime_type |-> mime_type, vendor |-> vendor, version |-> version]

\* Position of the first occurrence of sub in s, 0 when there is none.
RECURSIVE FindFrom(_, _, _)
FindFrom(s, sub, i) ==
    IF i + Len(sub) - 1 > Len(s) THEN 0
    ELSE IF SubSeq(s, i, i + Len(sub) - 1) = sub THEN i
    ELSE FindFrom(s, sub, i + 1)

Find(s, sub) == FindFrom(s, sub, 1)

\* Reads "type/subtype", "type/vnd.<vendor>+subtype" and
\* "type/vnd.<vendor>-v<version>+subtype".
ParseContentType(s) ==
    LET slash == Find(s, "/")
        plus == Find(s, "+")
        vnd == Find(s, "/vnd.")
    IN IF vnd = 0 \/ plus = 0 \/ vnd # slash \/ plus < vnd + 5
       THEN ContentType(s, Absent, Absent)
       ELSE LET mime == SubSeq(s, 1, slash) \o SubSeq(s, plus + 1, Len(s))
                qual == SubSeq(s, vnd + 5, plus - 1)
                dash == Find(qual, "-v")
            IN IF dash = 0
               THEN ContentType(mime, qual, Absent)
               ELSE ContentType(mime, SubSeq(qual, 1, dash - 1),
                                SubSeq(qual, dash + 2, Len(qual)))

Providers == {"JsonProvider", "MoreDetailedJsonProvider",
              "JsonProviderWithVendorAndVersion", "SupercellV2Provider",
              "AcmeJsonProvider"}

\* The CONTENT_TYPE class attribute of each provider class.
JsonProvider_CONTENT_TYPE == ContentType("application/json", Absent, Absent)

\* MoreDetailedJsonProvider declared without its vendor.
MoreDetailedJsonProvider_CONTENT_TYPE_no_vendor ==
    ContentType("application/json", Absent, Absent)

MoreDetailedJsonProvider_CONTENT_TYPE ==
    ContentType("application/json", "supercell", Absent)

JsonProviderWithVendorAndVersion_CONTENT_TYPE ==
    ContentType("application/json", "supercell", "1.0")

CONTENT_TYPE(p) ==
    CASE p = "JsonProvider" -> JsonProvider_CONTENT_TYPE
      [] p = "MoreDetailedJsonProvider" -> MoreDetailedJsonProvider_CONTENT_TYPE
      [] p = "JsonProviderWithVendorAndVersion" ->
            JsonProviderWithVendorAndVersion_CONTENT_TYPE
      [] p = "SupercellV2Provider" -> ContentType("application/json", "supercell", "2.0")
      [] p = "AcmeJsonProvider" -> ContentType("application/json", "acme", Absent)

Registered == {registry[i].provider : i \in DOMAIN registry}

\* The first registered provider whose content type is ct, "" when none is.
FirstRegistered(ct) ==
    LET I == {i \in DOMAIN registry : registry[i].content_type = ct}
    IN IF I = {} THEN ""
       ELSE registry[CHOOSE i \in I : \A j \in I : i <= j].provider

\* Resolution that falls back to any provider of the mime_type, whatever its
\* vendor or version.
Resolve_any_vendor(ct) ==
    LET exact == FirstRegistered(ct)
        I == {i \in DOMAIN registry : registry[i].content_type.mime_type = ct.mime_type}
    IN IF exact # "" THEN exact
       ELSE IF I = {} THEN ""
       ELSE registry[CHOOSE i \in I : \A j \in I : i <= j].provider

\* Resolution by precedence: mime_type + vendor + version, then mime_type +
\* vendor, then the bare mime_type; "" when no level matches.
Resolve(ct) ==
    LET exact == FirstRegistered(ct)
        vendor == FirstRegistered(ContentType(ct.mime_type, ct.vendor, Absent))
        bare == FirstRegistered(ContentType(ct.mime_type, Absent, Absent))
    IN IF exact # "" THEN exact
       ELSE IF vendor # "" THEN vendor
       ELSE bare

\* Content-type strings looked up.
LookupVendors == {"supercell", "acme", "nobody"}
LookupVersions == {"1.0", "2.0"}
LookupStrings ==
    {"application/json", "text/html"}
    \cup {"application/vnd." \o v \o "+json" : v \in LookupVendors}
    \cup {"application/vnd." \o v \o "-v" \o n \o "+json" :
            v \in LookupVendors, n \in LookupVersions}

\* A provider class is defined and registers itself under its CONTENT_TYPE.
register(p) ==
    /\ p \notin Registered
    /\ registry' = Append(registry, [content_type |-> CONTENT_TYPE(p), provider |-> p])
    /\ lookup' = NoLookup
    /\ UNCHANGED cacheVars

\* ProviderBase.map_provider(s)
map_provider(s) ==
    /\ LET p == Resolve(ParseContentType(s))
       IN lookup' = [request |-> s,
                     kind |-> IF p = "" THEN "no provider" ELSE "provider",
                     provider |-> p]
    /\ UNCHANGED registry
    /\ UNCHANGED cacheVars

RegistryNext ==
    \/ \E p \in Providers : register(p)
    \/ \E s \in LookupStrings : map_provider(s)

RegistrySpec == Init /\ [][RegistryNext]_vars

-----------------------------------------------------------------------------
(* Vocabulary of the properties *)

\* s.split(sep)
RECURSIVE Split(_, _)
Split(s, sep) ==
    LET i == Find(s, sep)
    IN IF i = 0 THEN <<s>>
       ELSE <<SubSeq(s, 1, i - 1)>> \o Split(SubSeq(s, i + Len(sep), Len(s)), sep)

\* The directive name of a token: the part before '=' when there is one.
TokenName(t) ==
    LET i == Find(t, "=") IN IF i = 0 THEN t ELSE SubSeq(t, 1, i - 1)

\* The part of a token after '=', "" when there is none.
TokenValue(t) ==
    LET i == Find(t, "=") IN IF i = 0 THEN "" ELSE SubSeq(t, i + 1, Len(t))

IsNumeral(t) ==
    /\ Len(t) > 0
    /\ \A i \in 1..Len(t) :
          SubSeq(t, i, i) \in {"0", "1", "2", "3", "4", "5", "6", "7", "8", "9"}

Tokens == Split(header.value, ", ")

TokenOrder == <<"max-age", "s-max-age", "public", "private", "no-cache",
                "no-store", "must-revalidate", "proxy-revalidate">>

ZeroDuration == [days |-> 0, seconds |-> 0, microseconds |-> 0]

\* An optional duration is set when it is neither None nor the zero duration.
IsSet(td) == td \notin {None, ZeroDuration}

\* Whether the directive named t is asked for by the configuration cfg.
Wanted(cfg, t) ==
    CASE t = "max-age" -> TRUE
      [] t = "s-max-age" -> IsSet(cfg.s_max_age)
      [] t = "public" -> cfg.public
      [] t = "private" -> cfg.private
      [] t = "no-cache" -> cfg.no_cache
      [] t = "no-store" -> cfg.no_store
      [] t = "must-revalidate" -> cfg.must_revalidate
      [] t = "proxy-revalidate" -> cfg.proxy_revalidate

WantedNames(cfg) == SelectSeq(TokenOrder, LAMBDA t : Wanted(cfg, t))

\* Total number of whole seconds of a duration.
TotalSeconds(td) == td.days * (24 * 60 * 60) + td.seconds

\* A header string has been produced by the last compute_cache_header call.
HeaderProduced == header.kind = "value"

\* The invocation of the decorated method has ended.
CallEnded == stage = "installed" /\ pc \in {"returned", "raised"}

\* The wrapped handler body has started during this invocation.
BodyStarted ==
    \/ pc \in {"in_body", "returned"}
    \/ pc = "raised" /\ outcome.exc = "HandlerError"

-----------------------------------------------------------------------------
(* C1: the header is exactly the ', '-joined tokens, in the fixed order       *)
(* max-age, s-max-age, public, private, no-cache, no-store,                 *)
(* must-revalidate, proxy-revalidate, of max-age plus every directive whose *)
(* field is true or set: none extra, none missing, none repeated, for every *)
(* combination of the flags, conflicting ones included.                     *)
C1_TokensInFixedOrder ==
    HeaderProduced =>
        LET toks == Tokens
        IN /\ [i \in 1..Len(toks) |-> TokenName(toks[i])] = WantedNames(cache_config)
           /\ header.value = Join(toks, ", ")

C1_Witness ==
    /\ HeaderProduced
    /\ cache_config.public /\ cache_config.private
    /\ cache_config.no_cache /\ cache_config.no_store
    /\ ~cache_config.must_revalidate /\ cache_config.proxy_revalidate
    /\ IsSet(cache_config.s_max_age)
    /\ Len(Tokens) = 7

(* C2: the first token of the header is 'max-age=<N>' with N the total      *)
(* number of seconds of max_age, days * 86400 + seconds.                    *)
C2_MaxAgeIsTotalSeconds ==
    HeaderProduced =>
        Tokens[1] = "max-age=" \o IntToStr(TotalSeconds(cache_config.max_age))

(* C3: an invocation of the decorated method calls set_header exactly once, *)
(* on the handler it was invoked on, with ('Cache-Control', header of the   *)
(* decorator's parameters), before the wrapped body starts, on every        *)
(* invocation (max_age being a timedelta, as documented).                   *)
C3_HeaderSetOnceBeforeBody ==
    /\ Len(set_header_calls) <= 1
    /\ (BodyStarted \/ pc = "header_set" \/ (CallEnded /\ closure.max_age # None)) =>
          set_header_calls =
              <<[self |-> call.self, name |-> "Cache-Control",
                 value |-> Join(Params(closure), ", ")]>>
    /\ fn_calls # <<>> => Len(set_header_calls) = 1

C3_Witness ==
    /\ ncalls = MaxCalls
    /\ pc = "in_body"
    /\ Len(set_header_calls) = 1
    /\ set_header_calls[1].value = "max-age=600, public, must-revalidate"

(* C4: with only max_age given the header is 'max-age=<N>, must-revalidate'; *)
(* public=True with a max_age of 600 seconds gives                          *)
(* 'max-age=600, public, must-revalidate'; must_revalidate=False removes    *)
(* the must-revalidate token and leaves every other token unchanged.        *)
C4_Defaults ==
    HeaderProduced =>
        LET toks == Tokens IN
        /\ given = {"max_age"} =>
              /\ Len(toks) = 2
              /\ TokenName(toks[1]) = "max-age"
              /\ IsNumeral(TokenValue(toks[1]))
              /\ header.value = toks[1] \o ", must-revalidate"
        /\ ( /\ given = {"max_age", "public"}
             /\ cache_config.public
             /\ cache_config.max_age = [days |-> 0, seconds |-> 600, microseconds |-> 0] )
              => header.value = "max-age=600, public, must-revalidate"
        /\ ~cache_config.must_revalidate =>
              /\ \A i \in 1..Len(toks) : toks[i] # "must-revalidate"
              /\ toks = SelectSeq(Params([cache_config EXCEPT !.must_revalidate = TRUE]),
                                    LAMBDA t : t # "must-revalidate")

C4_Witness ==
    /\ HeaderProduced
    /\ given = {"max_age", "public"}
    /\ header.value = "max-age=600, public, must-revalidate"

\* cache(...) or CacheConfig(...) was called without max_age: nothing has
\* been constructed, installed or computed.
NothingConstructed ==
    /\ closure = NoConfig /\ cache_config = NoConfig
    /\ header = NoHeader /\ ncalls = 0

(* C5 as stated: a missing max_age, left out or None, fails at construction: *)
(* such a configuration never gets as far as a constructed CacheConfigT, an  *)
(* installed decorated handler or a header string.                           *)
C5_FailsAtConstruction ==
    /\ stage = "type_error" => NothingConstructed
    /\ stage \in {"configured", "installed", "direct"} => "max_age" \in given
    /\ ~(stage \in {"configured", "installed"} /\ closure.max_age = None)
    /\ ~(stage = "direct" /\ cache_config.max_age = None)

(* C5 amended: a max_age left out fails at construction (TypeError of the   *)
(* call); with max_age None construction succeeds and the failure is raised *)
(* when the header is computed (each invocation of the decorated handler,   *)
(* or a direct compute_cache_header call); no header string is ever         *)
(* produced for such a configuration.                                       *)
C5_FailsWhenHeaderComputed ==
    /\ stage = "type_error" => NothingConstructed
    /\ stage \in {"configured", "installed", "direct"} => "max_age" \in given
    /\ (stage = "direct" /\ cache_config.max_age = None) =>
          header = [kind |-> "raise", value |-> "", exc |-> "AttributeError"]
    /\ (stage \in {"configured", "installed"} /\ closure.max_age = None) =>
          /\ ~HeaderProduced
          /\ pc \notin {"idle", "called"} =>
                header = [kind |-> "raise", value |-> "", exc |-> "AttributeError"]

C5_Witness ==
    /\ stage = "installed"
    /\ closure.max_age = None
    /\ header.kind = "raise"

(* C6: 's-max-age=<seconds>' is emitted iff s_max_age is neither None nor   *)
(* the zero duration; when emitted it is the second token and <seconds> is  *)
(* the number of seconds of s_max_age.                                      *)
C6_SMaxAge ==
    HeaderProduced =>
        LET toks == Tokens IN
        /\ IsSet(cache_config.s_max_age) <=>
              \E i \in 1..Len(toks) : TokenName(toks[i]) = "s-max-age"
        /\ IsSet(cache_config.s_max_age) =>
              toks[2] = "s-max-age=" \o IntToStr(TotalSeconds(cache_config.s_max_age))

\* The part of C6 about when and where the token is emitted.
C6_EmittedIffSetAndSecond ==
    HeaderProduced =>
        LET toks == Tokens IN
        /\ IsSet(cache_config.s_max_age) <=>
              \E i \in 1..Len(toks) : TokenName(toks[i]) = "s-max-age"
        /\ IsSet(cache_config.s_max_age) =>
              /\ TokenName(toks[1]) = "max-age"
              /\ TokenName(toks[2]) = "s-max-age"

(* C7: the wrapped handler is called with the same self and exactly the     *)
(* positional and keyword arguments of the caller, once per invocation of   *)
(* the decorated method, and the decorated method returns its result        *)
(* unchanged (max_age being a timedelta, as documented).                    *)
C7_ArgumentsAndResultForwarded ==
    /\ Len(fn_calls) <= 1
    /\ (BodyStarted \/ (CallEnded /\ closure.max_age # None)) =>
          fn_calls = <<[self |-> call.self, args |-> call.args,
                        kwargs |-> call.kwargs]>>
    /\ pc = "returned" =>
          outcome = [kind |-> "return", value |-> fn_result, exc |-> ""]
    /\ (pc # "returned" /\ stage = "installed") => fn_result = NoResult

C7_Witness ==
    /\ pc = "returned"
    /\ ncalls = MaxCalls
    /\ call.args = <<"a", "b">>
    /\ call.kwargs = << <<"k", "v">> >>
    /\ fn_calls[1].kwargs = << <<"k", "v">> >>
    /\ outcome.value = "body"

(* C10: when computing the header fails inside a decorated call, the error  *)
(* reaches the caller, set_header is never called and the wrapped handler   *)
(* is never invoked; no body runs without the header having been set first. *)
C10_FailurePropagates ==
    /\ (stage = "installed" /\ closure.max_age = None /\ pc \notin {"idle", "called"}) =>
          /\ pc = "raised"
          /\ outcome = [kind |-> "raise", value |-> "", exc |-> "AttributeError"]
          /\ set_header_calls = <<>>
          /\ fn_calls = <<>>
    /\ header.kind = "raise" /\ stage = "installed" =>
          /\ pc = "raised" /\ outcome.exc = header.exc
          /\ set_header_calls = <<>> /\ fn_calls = <<>>
    /\ BodyStarted => set_header_calls # <<>>

C10_Witness ==
    /\ stage = "installed"
    /\ pc = "raised"
    /\ outcome.exc = "AttributeError"
    /\ ncalls = MaxCalls
    /\ set_header_calls = <<>>
    /\ fn_calls = <<>>

-----------------------------------------------------------------------------
(* Properties of the provider registry *)

\* The content-type string that names ct.
RenderContentType(ct) ==
    IF ct.vendor = Absent THEN ct.mime_type
    ELSE LET slash == Find(ct.mime_type, "/")
         IN SubSeq(ct.mime_type, 1, slash) \o "vnd." \o ct.vendor
            \o (IF ct.version = Absent THEN "" ELSE "-v" \o ct.version)
            \o "+" \o SubSeq(ct.mime_type, slash + 1, Len(ct.mime_type))

\* The content types a looked-up string can name.
RequestedContentTypes ==
    {ContentType(m, Absent, Absent) : m \in {"application/json", "text/html"}}
    \cup {ContentType("application/json", v, n) :
            v \in LookupVendors, n \in LookupVersions \cup {Absent}}

RegisteredContentTypes == {registry[i].content_type : i \in DOMAIN registry}

TestProviders == {"JsonProvider", "MoreDetailedJsonProvider",
                  "JsonProviderWithVendorAndVersion"}

(* C8: map_provider returns the most specific registered provider; with the *)
(* three providers of the test registered, 'application/json',              *)
(* 'application/vnd.supercell+json' and                                     *)
(* 'application/vnd.supercell-v1.0+json' resolve to JsonProvider,           *)
(* MoreDetailedJsonProvider and JsonProviderWithVendorAndVersion, whatever  *)
(* the order of registration.                                               *)
C8_MostSpecificProvider ==
    /\ TestProviders \subseteq Registered =>
          /\ lookup.request = "application/json" =>
                lookup.provider = "JsonProvider"
          /\ lookup.request = "application/vnd.supercell+json" =>
                lookup.provider = "MoreDetailedJsonProvider"
          /\ lookup.request = "application/vnd.supercell-v1.0+json" =>
                lookup.provider = "JsonProviderWithVendorAndVersion"
    /\ \A ct \in RequestedContentTypes :
          lookup.request = RenderContentType(ct) =>
             LET vendor_only == ContentType(ct.mime_type, ct.vendor, Absent)
             IN /\ ct \in RegisteredContentTypes =>
                      /\ lookup.kind = "provider"
                      /\ CONTENT_TYPE(lookup.provider) = ct
                /\ (ct \notin RegisteredContentTypes
                    /\ vendor_only \in RegisteredContentTypes) =>
                      /\ lookup.kind = "provider"
                      /\ CONTENT_TYPE(lookup.provider) = vendor_only

C8_Witness ==
    /\ Len(registry) >= 3
    /\ registry[1].provider = "JsonProviderWithVendorAndVersion"
    /\ registry[2].provider = "MoreDetailedJsonProvider"
    /\ registry[3].provider = "JsonProvider"
    /\ lookup.request = "application/vnd.supercell+json"
    /\ lookup.provider = "MoreDetailedJsonProvider"

(* C9: a lookup never returns a provider registered under another vendor,   *)
(* nor one registered for another version of the vendor; when no provider   *)
(* is registered for the vendor looked up, it fails with 'no provider' or   *)
(* returns the default provider of the bare mime_type.                      *)
C9_NeverAnotherVendor ==
    \A ct \in RequestedContentTypes :
        lookup.request = RenderContentType(ct) =>
            /\ lookup.kind \in {"provider", "no provider"}
            /\ lookup.kind = "no provider" <=> lookup.provider = ""
            /\ lookup.kind = "provider" =>
                  LET got == CONTENT_TYPE(lookup.provider)
                  IN /\ lookup.provider \in Registered
                     /\ got.mime_type = ct.mime_type
                     /\ got.vendor \in {Absent, ct.vendor}
                     /\ got.version \in {Absent, ct.version}
                     /\ (\A c \in RegisteredContentTypes : c.vendor # ct.vendor) =>
                           got = ContentType(ct.mime_type, Absent, Absent)

C9_Witness ==
    /\ "AcmeJsonProvider" \in Registered
    /\ "MoreDetailedJsonProvider" \in Registered
    /\ lookup.request = "application/vnd.nobody-v1.0+json"
    /\ lookup.provider = "JsonProvider"

\* A lookup for an unregistered vendor with no default provider registered.
C9_NoProviderReached ==
    /\ "AcmeJsonProvider" \in Registered
    /\ lookup.request = "application/vnd.nobody+json"
    /\ lookup.kind = "no provider"

====
